---------------------------- MODULE Spec2Model ----------------------------
(***************************************************************************)
(* Model of the knowledge-base search engine's RAG pipeline:               *)
(*   DocumentParser.chunk_text        (backend/document_utils.py)          *)
(*   RAGSystem.add_document, retrieve, clear, synthesize_answer, query,    *)
(*     save_index, load_index             (backend/rag.py)                 *)
(*   upload_documents, query_knowledge_base   (backend/main.py)            *)
(*                                                                         *)
(* Texts are sequences of one-character strings.  Every call runs in a     *)
(* thread; pc[t] is the position of thread t in the method it executes and *)
(* loc[t] holds that call's local variables.  index and documents are the  *)
(* fields of the one shared RAGSystem, disk is its snapshot directory.     *)
(* saved and before are history variables used by the properties only.     *)
(***************************************************************************)
EXTENDS Integers, Sequences, FiniteSets, TLC

VARIABLES chunk_size, chunk_overlap, llm_provider, hf_client,
          index, documents, disk, saved, before, pc, loc

vars == <<chunk_size, chunk_overlap, llm_provider, hf_client,
          index, documents, disk, saved, before, pc, loc>>

\* the fields of the RAGSystem that are set by __init__ and never assigned again
config == <<chunk_size, chunk_overlap, llm_provider, hf_client>>

---------------------------------------------------------------------------
(* Bounds of the model *)

\* longest text given to chunk_text
MaxLen == 5
\* largest chunk_size / overlap argument tried (the smallest is -1)
MaxChunkSize == 3
MaxOverlap == 2
\* stands for the iteration cap 10000 of chunk_text, scaled to the text sizes
max_iterations == 12
\* the RAGSystem's chunk_size=500 / chunk_overlap=50, scaled
DefaultChunkSize == 3
DefaultOverlap == 1
\* add_document is not started once documents holds this many records
MaxDocs == 3
\* the same where snapshots are saved and loaded
SnapshotMaxDocs == 2
\* largest number of files in one upload request
MaxBatch == 2
\* number of threads calling into the RAGSystem
NumThreads == 2
\* largest top_k passed to retrieve (the smallest is -1)
MaxTopK == 2
\* the additive constant c tried for the iteration bound ceil(L/(size-overlap)) + c
SmallConstant == 2

\* dimension of the embedding model's vectors (all-MiniLM-L6-v2: 384), scaled
embedding_dim == 2

Threads == 1..NumThreads

Chars == {"a", ".", " ", "\n"}

\* the characters str.strip() removes
Whitespace == {" ", "\n"}

SeqsUpTo(S, n) == UNION {[1..k -> S] : k \in 0..n}

Texts == SeqsUpTo(Chars, MaxLen)

ChunkSizes == -1..MaxChunkSize
Overlaps == -1..MaxOverlap

\* documents handed to add_document in the sequential specification: empty,
\* whitespace only, one chunk, two chunks, and one on which the loop of
\* chunk_text stalls after its first chunk
DocTexts == { <<>>,
              <<" ", "\n">>,
              <<"a", "a">>,
              <<"a", ".", " ", "a">>,
              <<"a", " ", "a", "a", "a", "a">> }

Sources == {"f1.txt", "f2.txt"}

Queries == { <<"a">>, <<"a", ".">> }

\* the document and the query of the concurrent specification
ConcText == <<"a", ".", " ", "a">>
ConcQuery == <<"a">>

TopKs == -1..MaxTopK

---------------------------------------------------------------------------
(* Python string primitives *)

SetMax(S) == CHOOSE x \in S : \A y \in S : y <= x
SetMin(S) == CHOOSE x \in S : \A y \in S : x <= y

\* a slice bound as Python normalises it: negative counts from the end,
\* then clamped to 0..n
SliceIndex(i, n) ==
    IF i < 0 THEN (IF i + n < 0 THEN 0 ELSE i + n)
    ELSE IF i > n THEN n ELSE i

\* s[lo:hi]
Slice(s, lo, hi) ==
    LET a == SliceIndex(lo, Len(s))
        b == SliceIndex(hi, Len(s))
    IN  IF a >= b THEN <<>> ELSE SubSeq(s, a + 1, b)

\* s.rfind(sub, lo, hi): the highest 0-based index in the slice at which sub
\* occurs entirely inside the slice, or -1
RFind(s, sub, lo, hi) ==
    LET a == SliceIndex(lo, Len(s))
        b == SliceIndex(hi, Len(s))
        found == {k \in a..(b - Len(sub)) : SubSeq(s, k + 1, k + Len(sub)) = sub}
    IN  IF found = {} THEN -1 ELSE SetMax(found)

\* s.strip()
Strip(s) ==
    LET keep == {k \in 1..Len(s) : s[k] \notin Whitespace}
    IN  IF keep = {} THEN <<>> ELSE SubSeq(s, SetMin(keep), SetMax(keep))

---------------------------------------------------------------------------
(* DocumentParser.chunk_text *)

\* the sentence delimiters, in the order the loop tries them
Delimiters == << <<".", " ">>, <<".", "\n">>, <<"!", " ">>,
                 <<"!", "\n">>, <<"?", " ">>, <<"?", "\n">> >>

\* the cut point of one iteration
FindEnd(txt, start, size) ==
    LET end0 == start + size
        hit == {d \in 1..Len(Delimiters) : RFind(txt, Delimiters[d], start, end0) # -1}
        space == RFind(txt, <<" ">>, start, end0)
    IN  IF end0 < Len(txt)
        THEN IF hit # {}
             THEN LET d == SetMin(hit)
                  IN  RFind(txt, Delimiters[d], start, end0) + Len(Delimiters[d])
             ELSE IF space # -1 THEN space + 1 ELSE end0
        ELSE end0

ChunkSliceToEnd(txt, start, end) == Strip(Slice(txt, start, Len(txt)))

\* chunk = text[start:end].strip()
ChunkSlice(txt, start, end) == Strip(Slice(txt, start, end))

EmitAlways(chunks, chunk) == Append(chunks, chunk)

\* if chunk: chunks.append(chunk)
Emit(chunks, chunk) == IF chunk # <<>> THEN Append(chunks, chunk) ELSE chunks

\* the cursor after one iteration
NextStart(txt, start, end, size, overlap) ==
    IF end <= start
    THEN start + (IF size > 1 THEN size ELSE 1)
    ELSE IF end < Len(txt) THEN end - overlap ELSE Len(txt)

\* the while condition
LoopCond(txt, l) ==
    l.start < Len(txt) /\ l.iteration_count < max_iterations

\* one iteration of the while loop on the locals l of the call
LoopBody(txt, size, overlap, l) ==
    LET end == FindEnd(txt, l.start, size)
    IN  [l EXCEPT !.iteration_count = @ + 1,
                  !.chunks = Emit(@, ChunkSlice(txt, l.start, end)),
                  !.start = NextStart(txt, l.start, end, size, overlap)]

---------------------------------------------------------------------------
(* The embedding model and the FAISS index *)

CountOf(txt, c) == Cardinality({k \in 1..Len(txt) : txt[k] = c})

\* SentenceTransformer.encode of one text: a fixed vector of embedding_dim
\* numbers that depends on the text only
Embed(txt) ==
    [k \in 1..embedding_dim |-> IF k = 1 THEN Len(txt) ELSE CountOf(txt, "a")]

\* encode(chunks): one row per chunk, in order
Encode(chunks) == [k \in 1..Len(chunks) |-> Embed(chunks[k])]

\* faiss.IndexFlatL2(embedding_dim)
NewIndex == [d |-> embedding_dim, vecs |-> <<>>]

IndexAddFirstOnly(idx, rows) == [idx EXCEPT !.vecs = Append(@, rows[1])]

\* index.add(rows), rows of the index's dimension
IndexAdd(idx, rows) == [idx EXCEPT !.vecs = @ \o rows]

\* index.ntotal
NTotal(idx) == Len(idx.vecs)

---------------------------------------------------------------------------
(* The snapshot directory *)

\* a file that is not there
Missing == [state |-> "missing", content |-> <<>>]

\* the directory save_index writes and load_index reads: whether it exists,
\* and its files index.faiss and documents.json
NoDirectory == [exists |-> FALSE, faiss |-> Missing, json |-> Missing]

\* what the last completed save_index call could observe of the store, for the
\* comparison after a later load_index
NotSaved == [valid |-> FALSE, count |-> 0, sources |-> {}, results |-> <<>>]

\* the value of before while no call made alone is under way
NoBefore == <<>>

\* a file whose content was written completely
File(content) == [state |-> "ok", content |-> content]

\* a file left by a write that failed part-way
Corrupt == [state |-> "corrupt", content |-> <<>>]

\* faiss.write_index: the dimension, the number of vectors and the
\* components of all vectors in one row-major array
WriteIndex(idx) ==
    [d |-> idx.d,
     ntotal |-> NTotal(idx),
     data |-> [j \in 1..(NTotal(idx) * idx.d) |->
                  idx.vecs[((j - 1) \div idx.d) + 1][((j - 1) % idx.d) + 1]]]

\* faiss.read_index: the index of the dimension the file states
ReadIndex(content) ==
    [d |-> content.d,
     vecs |-> [i \in 1..content.ntotal |->
                  [k \in 1..content.d |-> content.data[(i - 1) * content.d + k]]]]

\* json.dump(self.documents, f): a list of objects, each a list of key/value
\* pairs
JsonDump(docs) ==
    [k \in 1..Len(docs) |->
        << <<"text", docs[k].text>>,
           <<"source", docs[k].source>>,
           <<"chunk_id", docs[k].chunk_id>> >>]

\* the value of key in a JSON object
JsonValue(obj, key) == obj[CHOOSE j \in 1..Len(obj) : obj[j][1] = key][2]

JsonLoadRenumbered(content) ==
    [k \in 1..Len(content) |->
        [text |-> JsonValue(content[k], "text"),
         source |-> JsonValue(content[k], "source"),
         chunk_id |-> k - 1]]

\* json.load(f): the list of dicts
JsonLoad(content) ==
    [k \in 1..Len(content) |->
        [text |-> JsonValue(content[k], "text"),
         source |-> JsonValue(content[k], "source"),
         chunk_id |-> JsonValue(content[k], "chunk_id")]]

\* a snapshot saved by a RAGSystem whose embedding model has another dimension
ForeignSnapshot ==
    [exists |-> TRUE,
     faiss |-> File(WriteIndex([d |-> embedding_dim + 1,
                                vecs |-> <<[k \in 1..(embedding_dim + 1) |-> 2]>>])),
     json |-> File(JsonDump(<<[text |-> <<"a", "a">>, source |-> "f2.txt",
                               chunk_id |-> 0]>>))]

---------------------------------------------------------------------------
(* Calls and their local variables *)

\* frames holds the callers of the method the thread executes, innermost
\* first, each with the locals it needs after the call
NoLocals ==
    [text |-> <<>>, source |-> "", start |-> 0, chunks |-> <<>>,
     iteration_count |-> 0, embeddings |-> <<>>, i |-> 0,
     query |-> <<>>, top_k |-> 0, hits |-> <<>>, results |-> <<>>,
     context |-> <<>>, response |-> "none",
     files |-> <<>>, uploaded_files |-> <<>>,
     raised |-> "none", last |-> "none", frames |-> <<>>]

\* the method thread t executes is over: kind of call, exception it raised,
\* value returned; only these are left of its locals, and its callers
Return(t, kind, exc, res) ==
    /\ pc' = [pc EXCEPT ![t] = "returned"]
    /\ loc' = [loc EXCEPT ![t] = [NoLocals EXCEPT !.last = kind,
                                                   !.raised = exc,
                                                   !.results = res,
                                                   !.frames = loc[t].frames]]

Goto(t, label) == pc' = [pc EXCEPT ![t] = label]

---------------------------------------------------------------------------
(* RAGSystem.add_document *)

\* the call: chunk_text(text, self.chunk_size, self.chunk_overlap) is entered
AddDocument(t, txt, src) ==
    /\ pc[t] = "idle"
    /\ Len(documents) < MaxDocs
    /\ loc' = [loc EXCEPT ![t] = [NoLocals EXCEPT !.text = txt, !.source = src]]
    /\ Goto(t, "chunk_text")
    /\ UNCHANGED <<config, disk, saved, index, documents>>

\* chunk_text: `if not text: return []`, else the locals are initialised
ChunkEnter(t) ==
    /\ pc[t] = "chunk_text"
    /\ IF loc[t].text = <<>> THEN Goto(t, "chunk_done") ELSE Goto(t, "chunk_loop")
    /\ UNCHANGED <<config, disk, saved, before, index, documents, loc>>

\* chunk_text: one iteration of the while loop
ChunkIter(t) ==
    /\ pc[t] = "chunk_loop"
    /\ LoopCond(loc[t].text, loc[t])
    /\ loc' = [loc EXCEPT ![t] = LoopBody(loc[t].text, chunk_size, chunk_overlap, @)]
    /\ UNCHANGED <<config, disk, saved, before, index, documents, pc>>

\* chunk_text: the loop is left, the warning is logged, chunks is returned
ChunkReturn(t) ==
    /\ pc[t] = "chunk_loop"
    /\ ~LoopCond(loc[t].text, loc[t])
    /\ Goto(t, "chunk_done")
    /\ UNCHANGED <<config, disk, saved, before, index, documents, loc>>

\* add_document: `if not chunks: return`
AddCheck(t) ==
    /\ pc[t] = "chunk_done"
    /\ IF loc[t].chunks = <<>>
       THEN Return(t, "add_nochunks", "none", <<>>)
       ELSE Goto(t, "encode") /\ UNCHANGED loc
    /\ UNCHANGED <<config, disk, saved, before, index, documents>>

\* add_document: embedding_model.encode(chunks), which may raise
AddEncode(t) ==
    /\ pc[t] = "encode"
    /\ \E ok \in BOOLEAN :
          IF ok
          THEN /\ loc' = [loc EXCEPT ![t].embeddings = Encode(loc[t].chunks)]
               /\ Goto(t, "index_add")
          ELSE Return(t, "add_raised", "EncodeError", <<>>)
    /\ UNCHANGED <<config, disk, saved, before, index, documents>>

AddIndexUnchecked(t) ==
    /\ pc[t] = "index_add"
    /\ index' = IndexAdd(index, loc[t].embeddings)
    /\ IF \A k \in 1..Len(loc[t].embeddings) : Len(loc[t].embeddings[k]) = index.d
       THEN Goto(t, "store") /\ UNCHANGED loc
       ELSE Return(t, "add_raised", "IndexAddError", <<>>)
    /\ UNCHANGED <<config, disk, saved, before, documents>>

\* add_document: self.index.add(embeddings_array); faiss refuses rows of
\* another dimension before it stores anything
AddIndex(t) ==
    /\ pc[t] = "index_add"
    /\ IF \A k \in 1..Len(loc[t].embeddings) : Len(loc[t].embeddings[k]) = index.d
       THEN /\ index' = IndexAdd(index, loc[t].embeddings)
            /\ Goto(t, "store")
            /\ UNCHANGED loc
       ELSE /\ Return(t, "add_raised", "IndexAddError", <<>>)
            /\ UNCHANGED index
    /\ UNCHANGED <<config, disk, saved, before, documents>>

\* add_document: one iteration of `for i, chunk in enumerate(chunks)`
AddStore(t) ==
    /\ pc[t] = "store"
    /\ documents' = Append(documents, [text |-> loc[t].chunks[loc[t].i + 1],
                                       source |-> loc[t].source,
                                       chunk_id |-> loc[t].i])
    /\ IF loc[t].i + 1 < Len(loc[t].chunks)
       THEN loc' = [loc EXCEPT ![t].i = @ + 1] /\ UNCHANGED pc
       ELSE Return(t, "add_ok", "none", <<>>)
    /\ UNCHANGED <<config, disk, saved, before, index>>

AddSteps(t) ==
    \/ ChunkEnter(t) \/ ChunkIter(t) \/ ChunkReturn(t)
    \/ AddCheck(t) \/ AddEncode(t) \/ AddIndex(t) \/ AddStore(t)

---------------------------------------------------------------------------
(* RAGSystem.clear *)

\* self.index = faiss.IndexFlatL2(self.embedding_dim)
Clear(t) ==
    /\ pc[t] = "idle"
    /\ index' = NewIndex
    /\ loc' = [loc EXCEPT ![t] = NoLocals]
    /\ Goto(t, "clear_docs")
    /\ UNCHANGED <<config, disk, saved, documents>>

\* self.documents = []
ClearDocs(t) ==
    /\ pc[t] = "clear_docs"
    /\ documents' = <<>>
    /\ Return(t, "clear", "none", <<>>)
    /\ UNCHANGED <<config, disk, saved, before, index>>

---------------------------------------------------------------------------
(* RAGSystem.retrieve *)

RECURSIVE SqDistFrom(_, _, _)
SqDistFrom(u, v, k) ==
    IF k > Len(u) THEN 0
    ELSE (u[k] - v[k]) * (u[k] - v[k]) + SqDistFrom(u, v, k + 1)

\* squared Euclidean distance, the score of IndexFlatL2
SqDist(u, v) == SqDistFrom(u, v, 1)

\* the distance faiss reports for a missing neighbour: above every real one
InfDist == embedding_dim * MaxLen * MaxLen + 1

BeforeByPosition(idx, qe, p, q) == p < q

\* position p (0-based) comes before position q in the ranking for query qe
Before(idx, qe, p, q) ==
    LET dp == SqDist(idx.vecs[p + 1], qe)
        dq == SqDist(idx.vecs[q + 1], qe)
    IN  dp < dq \/ (dp = dq /\ p < q)

\* index.search(qe, k) for k >= 1: the k nearest positions by ascending
\* distance, padded with position -1 when the index holds fewer than k vectors
Search(idx, qe, k) ==
    LET n == NTotal(idx)
        ranked(r) == CHOOSE p \in 0..(n - 1) :
                        Cardinality({q \in 0..(n - 1) : Before(idx, qe, q, p)}) = r - 1
    IN  [r \in 1..k |->
            IF r <= n
            THEN [idx |-> ranked(r), dist |-> SqDist(idx.vecs[ranked(r) + 1], qe)]
            ELSE [idx |-> -1, dist |-> InfDist]]

\* the call retrieve(query, top_k)
Retrieve(t, q, k) ==
    /\ pc[t] = "idle"
    /\ loc' = [loc EXCEPT ![t] = [NoLocals EXCEPT !.query = q, !.top_k = k]]
    /\ Goto(t, "retrieve")
    /\ UNCHANGED <<config, disk, saved, index, documents>>

\* `if len(self.documents) == 0: return []`
RetrieveEnter(t) ==
    /\ pc[t] = "retrieve"
    /\ IF Len(documents) = 0
       THEN Return(t, "retrieve", "none", <<>>)
       ELSE Goto(t, "r_encode") /\ UNCHANGED loc
    /\ UNCHANGED <<config, disk, saved, before, index, documents>>

\* embedding_model.encode([query]), which may raise
RetrieveEncode(t) ==
    /\ pc[t] = "r_encode"
    /\ \E ok \in BOOLEAN :
          IF ok
          THEN /\ loc' = [loc EXCEPT ![t].embeddings = Encode(<<loc[t].query>>)]
               /\ Goto(t, "r_search")
          ELSE Return(t, "retrieve", "EncodeError", <<>>)
    /\ UNCHANGED <<config, disk, saved, before, index, documents>>

\* self.index.search(query_embedding, min(top_k, len(self.documents))).
\* faiss rejects a query of another dimension and k < 0; k = 0 is rejected by
\* the releases that assert k > 0 and gives no hit in the others.
RetrieveSearch(t) ==
    /\ pc[t] = "r_search"
    /\ LET qe == loc[t].embeddings[1]
           k == IF loc[t].top_k < Len(documents) THEN loc[t].top_k ELSE Len(documents)
       IN  \/ /\ Len(qe) # index.d \/ k <= 0
              /\ Return(t, "retrieve", "SearchError", <<>>)
           \/ /\ Len(qe) = index.d /\ k = 0
              /\ Return(t, "retrieve", "none", <<>>)
           \/ /\ Len(qe) = index.d /\ k > 0
              /\ loc' = [loc EXCEPT ![t].hits = Search(index, qe, k)]
              /\ Goto(t, "r_join")
    /\ UNCHANGED <<config, disk, saved, before, index, documents>>

RetrieveJoinInPlace(t) ==
    /\ pc[t] = "r_join"
    /\ LET hit == loc[t].hits[loc[t].i + 1]
           n == Len(documents)
           pos == IF hit.idx >= 0 THEN hit.idx + 1 ELSE n + hit.idx + 1
           doc == [text |-> documents[pos].text,
                   source |-> documents[pos].source,
                   chunk_id |-> documents[pos].chunk_id,
                   score |-> hit.dist]
           res == IF hit.idx < n THEN Append(loc[t].results, doc)
                  ELSE loc[t].results
       IN  IF hit.idx < n /\ pos < 1
           THEN Return(t, "retrieve", "IndexError", <<>>) /\ UNCHANGED documents
           ELSE /\ documents' = IF hit.idx < n
                                THEN [documents EXCEPT ![pos] = doc]
                                ELSE documents
                /\ IF loc[t].i + 1 < Len(loc[t].hits)
                   THEN loc' = [loc EXCEPT ![t].i = @ + 1, ![t].results = res]
                        /\ UNCHANGED pc
                   ELSE Return(t, "retrieve", "none", res)
    /\ UNCHANGED <<config, disk, saved, before, index>>

\* one iteration of `for i, idx in enumerate(indices[0])`:
\* `if idx < len(self.documents)`, documents[idx].copy(), doc['score'], append.
\* A negative idx subscripts the list from its end.
RetrieveJoin(t) ==
    /\ pc[t] = "r_join"
    /\ LET hit == loc[t].hits[loc[t].i + 1]
           n == Len(documents)
           pos == IF hit.idx >= 0 THEN hit.idx + 1 ELSE n + hit.idx + 1
           res == IF hit.idx < n
                  THEN Append(loc[t].results,
                              [text |-> documents[pos].text,
                               source |-> documents[pos].source,
                               chunk_id |-> documents[pos].chunk_id,
                               score |-> hit.dist])
                  ELSE loc[t].results
       IN  IF hit.idx < n /\ pos < 1
           THEN Return(t, "retrieve", "IndexError", <<>>)
           ELSE IF loc[t].i + 1 < Len(loc[t].hits)
                THEN loc' = [loc EXCEPT ![t].i = @ + 1, ![t].results = res]
                     /\ UNCHANGED pc
                ELSE Return(t, "retrieve", "none", res)
    /\ UNCHANGED <<config, disk, saved, before, index, documents>>

---------------------------------------------------------------------------
(* RAGSystem.synthesize_answer and RAGSystem.query *)

\* the values of LLM_PROVIDER: the two the code knows and any other
Providers == {"openai", "huggingface", "other"}

\* what the generation backend does with one request: it answers with a text,
\* the call raises, the answer carries no text (content is None, no choices, not
\* a string), or nothing ever comes back
Responses == {"text", "exception", "no_content", "silent"}

\* the text a backend answers with, before .strip()
LlmText == <<" ", "a", ".", "\n">>

\* doc['text'][:300] (+ "...") of _fallback_answer and doc['text'][:200] of
\* query, scaled to the chunk sizes
FallbackPreview == 3
SourcePreview == 2

\* text[:n] + "..." if len(text) > n else text
Preview(txt, n) ==
    IF Len(txt) > n THEN Slice(txt, 0, n) \o <<"...">> ELSE txt

\* the fixed answer for an empty context
NoInformation ==
    [kind |-> "no_information", text |-> <<>>, items |-> <<>>]

\* the answer of a backend
Generated(txt) == [kind |-> "generated", text |-> Strip(txt), items |-> <<>>]

\* _fallback_answer: the heading and one numbered item per context document
FallbackAnswer(docs) ==
    [kind |-> "fallback", text |-> <<>>,
     items |-> [k \in 1..Len(docs) |->
                   [n |-> k, source |-> docs[k].source,
                    preview |-> Preview(docs[k].text, FallbackPreview)]]]

\* the sources list of query
SourcesOf(docs) ==
    [k \in 1..Len(docs) |->
        [source |-> docs[k].source, chunk_id |-> docs[k].chunk_id,
         score |-> docs[k].score, preview |-> Preview(docs[k].text, SourcePreview)]]

\* a caller waiting for the method the thread executes
Frame(fn, q, k, docs) == [fn |-> fn, query |-> q, top_k |-> k, docs |-> docs]

\* the thread is back in caller fn with the result of the method named callee
BackIn(t, fn, callee) ==
    /\ pc[t] = "returned"
    /\ loc[t].frames # <<>>
    /\ Head(loc[t].frames).fn = fn
    /\ loc[t].last = callee

\* the call query(query, top_k)
Query(t, q, k) ==
    /\ pc[t] = "idle"
    /\ loc' = [loc EXCEPT ![t] = [NoLocals EXCEPT !.query = q, !.top_k = k]]
    /\ Goto(t, "query")
    /\ UNCHANGED <<config, disk, saved, index, documents>>

\* relevant_docs = self.retrieve(query, top_k)
QueryRetrieve(t) ==
    /\ pc[t] = "query"
    /\ loc' = [loc EXCEPT ![t].frames =
                  <<Frame("query", loc[t].query, loc[t].top_k, <<>>)>> \o @]
    /\ Goto(t, "retrieve")
    /\ UNCHANGED <<config, disk, saved, before, index, documents>>

\* retrieve is over: its exception leaves query too, else
\* answer = self.synthesize_answer(query, relevant_docs) is entered
QuerySynthesize(t) ==
    /\ BackIn(t, "query", "retrieve")
    /\ LET f == Head(loc[t].frames)
       IN  IF loc[t].raised # "none"
           THEN /\ pc' = pc
                /\ loc' = [loc EXCEPT ![t].last = "query",
                                      ![t].frames = Tail(@)]
           ELSE /\ loc' = [loc EXCEPT ![t] =
                             [NoLocals EXCEPT
                                 !.query = f.query,
                                 !.context = loc[t].results,
                                 !.frames = <<[f EXCEPT !.docs = loc[t].results]>>
                                            \o Tail(loc[t].frames)]]
                /\ Goto(t, "synthesize")
    /\ UNCHANGED <<config, disk, saved, before, index, documents>>

\* synthesize_answer: `if not context_docs: return "I couldn't find ..."`,
\* else the prompt is built and the try block entered
SynthEnter(t) ==
    /\ pc[t] = "synthesize"
    /\ IF loc[t].context = <<>>
       THEN Return(t, "synthesize", "none", <<NoInformation>>)
       ELSE Goto(t, "s_try") /\ UNCHANGED loc
    /\ UNCHANGED <<config, disk, saved, before, index, documents>>

\* the branch on self.llm_provider: the request is sent to the backend, or the
\* fallback answer is returned at once (no hf_client, unknown provider)
SynthDispatch(t) ==
    /\ pc[t] = "s_try"
    /\ IF llm_provider = "openai" \/ (llm_provider = "huggingface" /\ hf_client)
       THEN /\ \E r \in Responses : loc' = [loc EXCEPT ![t].response = r]
            /\ Goto(t, "s_backend")
       ELSE Return(t, "synthesize", "none", <<FallbackAnswer(loc[t].context)>>)
    /\ UNCHANGED <<config, disk, saved, before, index, documents>>

\* the backend call has a time limit: the openai client gives up after its
\* default timeout; InferenceClient(token=...) is built without one
HasTimeout == llm_provider = "openai"

SynthBackendPropagates(t) ==
    /\ pc[t] = "s_backend"
    /\ loc[t].response = "silent" => HasTimeout
    /\ IF loc[t].response = "text"
       THEN Return(t, "synthesize", "none", <<Generated(LlmText)>>)
       ELSE Return(t, "synthesize", "BackendError", <<>>)
    /\ UNCHANGED <<config, disk, saved, before, index, documents>>

\* the backend call is over: the stripped text is returned; an exception, a
\* response without text (.strip() raises) and a timeout are caught by
\* `except Exception` and the fallback answer is returned.  A backend that
\* stays silent and a call without timeout never get here.
SynthBackend(t) ==
    /\ pc[t] = "s_backend"
    /\ loc[t].response = "silent" => HasTimeout
    /\ IF loc[t].response = "text"
       THEN Return(t, "synthesize", "none", <<Generated(LlmText)>>)
       ELSE Return(t, "synthesize", "none", <<FallbackAnswer(loc[t].context)>>)
    /\ UNCHANGED <<config, disk, saved, before, index, documents>>

\* synthesize_answer is over: query builds sources and returns the dict
QueryReturn(t) ==
    /\ BackIn(t, "query", "synthesize")
    /\ LET f == Head(loc[t].frames)
       IN  loc' = [loc EXCEPT ![t].last = "query",
                              ![t].results = <<[answer |-> loc[t].results[1],
                                               sources |-> SourcesOf(f.docs)]>>,
                              ![t].frames = Tail(@)]
    /\ UNCHANGED <<config, disk, saved, before, index, documents, pc>>

QuerySteps(t) ==
    \/ QueryRetrieve(t) \/ QuerySynthesize(t)
    \/ SynthEnter(t) \/ SynthDispatch(t) \/ SynthBackend(t)
    \/ QueryReturn(t)

---------------------------------------------------------------------------
(* POST /query (main.py) *)

\* the request arrives
HttpQuery(t, q, k) ==
    /\ pc[t] = "idle"
    /\ loc' = [loc EXCEPT ![t] = [NoLocals EXCEPT !.query = q, !.top_k = k]]
    /\ Goto(t, "http_query")
    /\ UNCHANGED <<config, disk, saved, index, documents>>

\* `if rag.get_document_count() == 0: raise HTTPException(status_code=400)`,
\* which `except HTTPException: raise` lets through; else rag.query is called
HttpQueryCheck(t) ==
    /\ pc[t] = "http_query"
    /\ IF Len(documents) = 0
       THEN Return(t, "http_query", "HTTP400", <<>>)
       ELSE /\ loc' = [loc EXCEPT ![t].frames =
                          <<Frame("http_query", loc[t].query, loc[t].top_k, <<>>)>> \o @]
            /\ Goto(t, "query")
    /\ UNCHANGED <<config, disk, saved, before, index, documents>>

\* rag.query is over: QueryResponse(answer, sources, query) is returned, or
\* `except Exception` turns the exception of query into a 500
HttpQueryReturn(t) ==
    /\ BackIn(t, "http_query", "query")
    /\ IF loc[t].raised # "none"
       THEN loc' = [loc EXCEPT ![t].last = "http_query",
                               ![t].raised = "HTTP500",
                               ![t].frames = Tail(@)]
       ELSE loc' = [loc EXCEPT ![t].last = "http_query",
                               ![t].frames = Tail(@)]
    /\ UNCHANGED <<config, disk, saved, before, index, documents, pc>>

HttpQuerySteps(t) == HttpQueryCheck(t) \/ HttpQueryReturn(t)

---------------------------------------------------------------------------
(* RAGSystem.save_index and RAGSystem.load_index *)

\* the outcome of `for i, idx in enumerate(indices[0])` on hits[i..]
RECURSIVE JoinFrom(_, _, _, _)
JoinFrom(docs, hits, i, acc) ==
    IF i > Len(hits) THEN [raised |-> "none", results |-> acc]
    ELSE LET hit == hits[i]
             n == Len(docs)
             pos == IF hit.idx >= 0 THEN hit.idx + 1 ELSE n + hit.idx + 1
         IN  IF hit.idx >= n THEN JoinFrom(docs, hits, i + 1, acc)
             ELSE IF pos < 1 THEN [raised |-> "IndexError", results |-> <<>>]
             ELSE JoinFrom(docs, hits, i + 1,
                           Append(acc, [text |-> docs[pos].text,
                                        source |-> docs[pos].source,
                                        chunk_id |-> docs[pos].chunk_id,
                                        score |-> hit.dist]))

\* what retrieve(q, k), k >= 1, gives on index idx and documents docs when
\* the encode call succeeds
RetrieveResult(idx, docs, q, k) ==
    IF Len(docs) = 0 THEN [raised |-> "none", results |-> <<>>]
    ELSE IF Len(Embed(q)) # idx.d THEN [raised |-> "SearchError", results |-> <<>>]
    ELSE JoinFrom(docs, Search(idx, Embed(q), IF k < Len(docs) THEN k ELSE Len(docs)),
                  1, <<>>)

\* get_document_count(), the set of list_documents() and the retrieve results
\* for the queries of the model
Observed(idx, docs) ==
    [valid |-> TRUE,
     count |-> Len(docs),
     sources |-> {docs[k].source : k \in 1..Len(docs)},
     results |-> [q \in Queries |->
                    [k \in 1..MaxTopK |-> RetrieveResult(idx, docs, q, k)]]]

\* the call save_index(path) and path_obj.mkdir(exist_ok=True)
SaveIndex(t) ==
    /\ pc[t] = "idle"
    /\ disk' = [disk EXCEPT !.exists = TRUE]
    /\ saved' = NotSaved
    /\ loc' = [loc EXCEPT ![t] = NoLocals]
    /\ Goto(t, "save_faiss")
    /\ UNCHANGED <<config, index, documents>>

\* faiss.write_index(self.index, ...): the file is written, or the write
\* fails part-way and raises
SaveWriteIndex(t) ==
    /\ pc[t] = "save_faiss"
    /\ \E ok \in BOOLEAN :
          IF ok
          THEN /\ disk' = [disk EXCEPT !.faiss = File(WriteIndex(index))]
               /\ Goto(t, "save_json")
               /\ UNCHANGED loc
          ELSE /\ disk' = [disk EXCEPT !.faiss = Corrupt]
               /\ Return(t, "save", "WriteError", <<>>)
    /\ UNCHANGED <<config, saved, before, index, documents>>

\* `with open(.../"documents.json", 'w') as f: json.dump(self.documents, f)`:
\* open raises and leaves the file as it was, or the file is written, or the
\* write fails part-way and raises
SaveWriteJson(t) ==
    /\ pc[t] = "save_json"
    /\ \/ /\ disk' = [disk EXCEPT !.json = File(JsonDump(documents))]
          /\ saved' = Observed(index, documents)
          /\ Return(t, "save", "none", <<>>)
       \/ /\ UNCHANGED <<disk, saved>>
          /\ Return(t, "save", "OpenError", <<>>)
       \/ /\ disk' = [disk EXCEPT !.json = Corrupt]
          /\ UNCHANGED saved
          /\ Return(t, "save", "WriteError", <<>>)
    /\ UNCHANGED <<config, before, index, documents>>

\* the call load_index(path)
LoadIndex(t) ==
    /\ pc[t] = "idle"
    /\ loc' = [loc EXCEPT ![t] = NoLocals]
    /\ Goto(t, "load")
    /\ UNCHANGED <<config, disk, saved, index, documents>>

\* `if not path_obj.exists(): logger.warning(...); return`
LoadCheck(t) ==
    /\ pc[t] = "load"
    /\ IF disk.exists
       THEN Goto(t, "load_faiss") /\ UNCHANGED loc
       ELSE Return(t, "load_nothing", "none", <<>>)
    /\ UNCHANGED <<config, disk, saved, before, index, documents>>

\* self.index = faiss.read_index(...), which raises on a missing or damaged file
LoadReadIndex(t) ==
    /\ pc[t] = "load_faiss"
    /\ IF disk.faiss.state = "ok"
       THEN /\ index' = ReadIndex(disk.faiss.content)
            /\ Goto(t, "load_json")
            /\ UNCHANGED loc
       ELSE /\ Return(t, "load", "ReadError", <<>>)
            /\ UNCHANGED index
    /\ UNCHANGED <<config, disk, saved, before, documents>>

\* `with open(.../"documents.json", 'r') as f: self.documents = json.load(f)`,
\* which raises on a missing or damaged file
LoadReadJson(t) ==
    /\ pc[t] = "load_json"
    /\ IF disk.json.state = "ok"
       THEN /\ documents' = JsonLoad(disk.json.content)
            /\ Return(t, "load", "none", <<>>)
       ELSE /\ Return(t, "load", "JsonError", <<>>)
            /\ UNCHANGED documents
    /\ UNCHANGED <<config, disk, saved, before, index>>

SnapshotSteps(t) ==
    \/ SaveWriteIndex(t) \/ SaveWriteJson(t)
    \/ LoadCheck(t) \/ LoadReadIndex(t) \/ LoadReadJson(t)

---------------------------------------------------------------------------
(* POST /upload (main.py) *)

\* filename.endswith('.pdf') or filename.endswith('.txt')
Supported(name) == name \in {"f1.txt", "f2.txt", "f3.pdf"}

\* an uploaded file: its name, whether it can be written to the uploads
\* directory, whether parse_document returns, and the text it returns
UploadFile(name, saves, parses, txt) ==
    [filename |-> name, saves |-> saves, parses |-> parses, text |-> txt]

\* the files of the model: three good text files, one with an unsupported
\* extension, one that cannot be saved, one that cannot be parsed
UploadFiles ==
    { UploadFile("f1.txt", TRUE, TRUE, <<"a", "a">>),
      UploadFile("f2.txt", TRUE, TRUE, <<"a", ".", " ", "a">>),
      UploadFile("f2.txt", TRUE, TRUE, <<"a", "\n", "\n", "a">>),
      UploadFile("f4.exe", TRUE, TRUE, <<"a", "a">>),
      UploadFile("f1.txt", FALSE, TRUE, <<"a", "a">>),
      UploadFile("f3.pdf", TRUE, FALSE, <<>>) }

\* the number of pieces of s.split(sep) from position i on
RECURSIVE SplitFrom(_, _, _)
SplitFrom(s, sep, i) ==
    IF i + Len(sep) - 1 > Len(s) THEN 1
    ELSE IF SubSeq(s, i, i + Len(sep) - 1) = sep
         THEN 1 + SplitFrom(s, sep, i + Len(sep))
         ELSE SplitFrom(s, sep, i + 1)

\* len(text_content.split('\n\n'))
ParagraphCount(txt) == SplitFrom(txt, <<"\n", "\n">>, 1)

\* the locals of upload_documents kept across the call of add_document
UploadFrame(files, i, uploaded) ==
    [fn |-> "upload", files |-> files, i |-> i, uploaded_files |-> uploaded]

\* the request arrives with its files
Upload(t, files) ==
    /\ pc[t] = "idle"
    /\ loc' = [loc EXCEPT ![t] = [NoLocals EXCEPT !.files = files]]
    /\ Goto(t, "upload")
    /\ UNCHANGED <<config, disk, saved, index, documents>>

\* one pass of `for file in files` up to the call of add_document, or the
\* return after the last file.  The HTTPException(400) for an unsupported
\* name and the exception of a failed save are raised inside the outer try,
\* whose `except Exception` raises HTTPException(500) in their place; an
\* exception of parse_document is caught by the inner try.
UploadFileStep(t) ==
    /\ pc[t] = "upload"
    /\ IF loc[t].i = Len(loc[t].files)
       THEN Return(t, "upload", "none",
                   <<[files |-> loc[t].uploaded_files,
                      total_documents |-> Len(documents)]>>)
       ELSE LET f == loc[t].files[loc[t].i + 1]
            IN  IF ~Supported(f.filename) \/ ~f.saves
                THEN Return(t, "upload", "HTTP500", <<>>)
                ELSE IF ~f.parses
                THEN /\ loc' = [loc EXCEPT
                                  ![t].i = @ + 1,
                                  ![t].uploaded_files =
                                      Append(@, [filename |-> f.filename,
                                                 status |-> "error", chunks |-> 0])]
                     /\ UNCHANGED pc
                ELSE /\ loc' = [loc EXCEPT ![t] =
                                  [NoLocals EXCEPT
                                      !.text = f.text,
                                      !.source = f.filename,
                                      !.frames = <<UploadFrame(loc[t].files, loc[t].i,
                                                               loc[t].uploaded_files)>>]]
                     /\ Goto(t, "chunk_text")
    /\ UNCHANGED <<config, disk, saved, before, index, documents>>

\* add_document is over: the file's success entry, or `except Exception` of
\* the inner try and its error entry; then the next file
UploadAdded(t) ==
    /\ pc[t] = "returned"
    /\ loc[t].frames # <<>>
    /\ Head(loc[t].frames).fn = "upload"
    /\ LET fr == Head(loc[t].frames)
           f == fr.files[fr.i + 1]
           entry == IF loc[t].raised = "none"
                    THEN [filename |-> f.filename, status |-> "success",
                          chunks |-> ParagraphCount(f.text)]
                    ELSE [filename |-> f.filename, status |-> "error", chunks |-> 0]
       IN  loc' = [loc EXCEPT ![t] =
                      [NoLocals EXCEPT !.files = fr.files,
                                       !.i = fr.i + 1,
                                       !.uploaded_files = Append(fr.uploaded_files, entry)]]
    /\ Goto(t, "upload")
    /\ UNCHANGED <<config, disk, saved, before, index, documents>>

UploadSteps(t) == UploadFileStep(t) \/ UploadAdded(t)

---------------------------------------------------------------------------
(* One add_document call on a fresh RAGSystem(chunk_size, chunk_overlap),   *)
(* for every text and every pair of arguments                              *)

InitChunk ==
    /\ chunk_size \in ChunkSizes
    /\ chunk_overlap \in Overlaps
    /\ llm_provider = "huggingface"
    /\ hf_client = FALSE
    /\ index = NewIndex
    /\ documents = <<>>
    /\ disk = NoDirectory
    /\ saved = NotSaved
    /\ before = NoBefore
    /\ pc = [t \in Threads |-> IF t = 1 THEN "chunk_text" ELSE "idle"]
    /\ \E txt \in Texts :
          loc = [t \in Threads |->
                    IF t = 1 THEN [NoLocals EXCEPT !.text = txt, !.source = "f1.txt"]
                    ELSE NoLocals]

NextChunk == \E t \in Threads : AddSteps(t)

SpecChunk == InitChunk /\ [][NextChunk]_vars

---------------------------------------------------------------------------
(* A RAGSystem() with the default arguments, called from the threads *)

Init ==
    /\ chunk_size = DefaultChunkSize
    /\ chunk_overlap = DefaultOverlap
    /\ llm_provider = "huggingface"
    /\ hf_client = FALSE
    /\ index = NewIndex
    /\ documents = <<>>
    /\ disk = NoDirectory
    /\ saved = NotSaved
    /\ before = NoBefore
    /\ pc = [t \in Threads |-> "idle"]
    /\ loc = [t \in Threads |-> NoLocals]

\* the caller of thread t has taken the result; the thread is free again
Resume(t) ==
    /\ pc[t] = "returned"
    /\ loc[t].frames = <<>>
    /\ pc' = [pc EXCEPT ![t] = "idle"]
    /\ loc' = [loc EXCEPT ![t] = NoLocals]
    /\ before' = NoBefore
    /\ UNCHANGED <<config, disk, saved, index, documents>>

Steps(t) ==
    \/ AddSteps(t)
    \/ ClearDocs(t)
    \/ RetrieveEnter(t) \/ RetrieveEncode(t) \/ RetrieveSearch(t) \/ RetrieveJoin(t)
    \/ Resume(t)

\* no thread is inside a call
Quiescent == \A t \in Threads : pc[t] \in {"idle", "returned"}

\* no thread is inside a call or holds a result not yet taken
AllIdle == \A t \in Threads : pc[t] = "idle"

\* the thread that runs the event loop of the server, on which every handler
\* runs from its first line to its last
EventLoop == SetMin(Threads)

\* a call made by the event loop while no other call runs; before keeps what
\* index and documents were when it began
Alone(t) == t = EventLoop /\ AllIdle /\ before' = <<index, documents>>

\* the calls are made one at a time: a call starts when the one before it is over
SeqAddDocument(t) ==
    Alone(t) /\ \E txt \in DocTexts, src \in Sources : AddDocument(t, txt, src)

SeqClear(t) == Alone(t) /\ Clear(t)

SeqRetrieve(t) ==
    Alone(t) /\ \E q \in Queries, k \in TopKs : Retrieve(t, q, k)

Next ==
    \E t \in Threads :
        SeqAddDocument(t) \/ SeqClear(t) \/ SeqRetrieve(t) \/ Steps(t)

Spec == Init /\ [][Next]_vars

---------------------------------------------------------------------------
(* A RAGSystem under every LLM configuration, searched with retrieve and    *)
(* queried directly and over POST /query, one call at a time               *)

\* the documents of this specification: one chunk, three chunks
QueryTexts == { <<"a", "a">>, <<"a", ".", " ", "a", " ", "a", "a", "a">> }

InitQuery ==
    /\ chunk_size = DefaultChunkSize
    /\ chunk_overlap = DefaultOverlap
    /\ llm_provider \in Providers
    /\ hf_client \in BOOLEAN
    /\ llm_provider # "huggingface" => hf_client = FALSE
    /\ index = NewIndex
    /\ documents = <<>>
    /\ disk = NoDirectory
    /\ saved = NotSaved
    /\ before = NoBefore
    /\ pc = [t \in Threads |-> "idle"]
    /\ loc = [t \in Threads |-> NoLocals]

QAddDocument(t) ==
    Alone(t) /\ \E txt \in QueryTexts, src \in Sources : AddDocument(t, txt, src)

SeqQuery(t) == Alone(t) /\ \E q \in Queries, k \in TopKs : Query(t, q, k)

SeqHttpQuery(t) == Alone(t) /\ \E q \in Queries, k \in TopKs : HttpQuery(t, q, k)

NextQuery ==
    \E t \in Threads :
        \/ QAddDocument(t) \/ SeqClear(t) \/ SeqRetrieve(t)
        \/ SeqQuery(t) \/ SeqHttpQuery(t)
        \/ Steps(t) \/ QuerySteps(t) \/ HttpQuerySteps(t)

SpecQuery == InitQuery /\ [][NextQuery]_vars

---------------------------------------------------------------------------
(* A RAGSystem whose snapshot directory may hold the snapshot of another    *)
(* configuration; add_document, clear, save_index, load_index and retrieve  *)
(* are called one at a time                                                *)

\* the documents of this specification, all of source f1.txt (the foreign
\* snapshot holds one of f2.txt): one chunk, two chunks
SnapshotTexts == { <<"a", "a">>, <<"a", ".", " ", "a">> }

InitSnapshot ==
    /\ chunk_size = DefaultChunkSize
    /\ chunk_overlap = DefaultOverlap
    /\ llm_provider = "huggingface"
    /\ hf_client = FALSE
    /\ index = NewIndex
    /\ documents = <<>>
    /\ disk \in {NoDirectory, ForeignSnapshot}
    /\ saved = NotSaved
    /\ before = NoBefore
    /\ pc = [t \in Threads |-> "idle"]
    /\ loc = [t \in Threads |-> NoLocals]

SnapAddDocument(t) ==
    /\ Alone(t)
    /\ Len(documents) < SnapshotMaxDocs /\ NTotal(index) < SnapshotMaxDocs
    /\ \E txt \in SnapshotTexts : AddDocument(t, txt, "f1.txt")

SeqSaveIndex(t) == Alone(t) /\ SaveIndex(t)

SeqLoadIndex(t) == Alone(t) /\ LoadIndex(t)

\* the query of this specification
SnapshotQuery == <<"a">>

SnapRetrieve(t) ==
    Alone(t) /\ \E k \in 1..MaxTopK : Retrieve(t, SnapshotQuery, k)

NextSnapshot ==
    \E t \in Threads :
        \/ SnapAddDocument(t) \/ SeqClear(t) \/ SeqSaveIndex(t) \/ SeqLoadIndex(t)
        \/ SnapRetrieve(t)
        \/ AddSteps(t) \/ ClearDocs(t) \/ SnapshotSteps(t)
        \/ RetrieveEnter(t) \/ RetrieveEncode(t) \/ RetrieveSearch(t) \/ RetrieveJoin(t)
        \/ Resume(t)

SpecSnapshot == InitSnapshot /\ [][NextSnapshot]_vars

---------------------------------------------------------------------------
(* The server: POST /upload with batches of files and DELETE /clear, one    *)
(* request at a time                                                       *)

\* the requests of up to MaxBatch files
Batches == UNION {[1..n -> UploadFiles] : n \in 1..MaxBatch}

SeqUpload(t) ==
    /\ Alone(t)
    /\ Len(documents) < MaxDocs
    /\ \E files \in Batches : Upload(t, files)

NextUpload ==
    \E t \in Threads :
        \/ SeqUpload(t) \/ SeqClear(t)
        \/ UploadSteps(t) \/ AddSteps(t) \/ ClearDocs(t) \/ Resume(t)

SpecUpload == Init /\ [][NextUpload]_vars

\* the calls are made concurrently and their steps interleave
ConcAddDocument(t) ==
    (\E src \in Sources : AddDocument(t, ConcText, src)) /\ UNCHANGED before

ConcClear(t) == Clear(t) /\ UNCHANGED before

ConcRetrieve(t) ==
    (\E k \in TopKs : Retrieve(t, ConcQuery, k)) /\ UNCHANGED before

NextConc ==
    \E t \in Threads :
        ConcAddDocument(t) \/ ConcClear(t) \/ ConcRetrieve(t) \/ Steps(t)

SpecConc == Init /\ [][NextConc]_vars

---------------------------------------------------------------------------
(* Properties of chunk_text, checked under SpecChunk *)

\* the documented precondition: target_size > overlap >= 0
ValidConfig == chunk_size > chunk_overlap /\ chunk_overlap >= 0

CeilDiv(a, b) == (a + b - 1) \div b

LongestDelimiter == SetMax({Len(Delimiters[d]) : d \in 1..Len(Delimiters)})

\* s without its whitespace characters
NoWhitespace(s) == SelectSeq(s, LAMBDA c : c \notin Whitespace)

IsSuffixPrefix(acc, c, k) ==
    /\ k <= Len(acc)
    /\ k <= Len(c)
    /\ SubSeq(acc, Len(acc) - k + 1, Len(acc)) = SubSeq(c, 1, k)

\* every text obtained by appending chunks[n..] to acc, each chunk without a
\* prefix of at most `overlap` characters that repeats the end of what precedes it
RECURSIVE MergeFrom(_, _, _, _)
MergeFrom(acc, chunks, n, overlap) ==
    IF n > Len(chunks) THEN {acc}
    ELSE LET c == chunks[n]
         IN  UNION { MergeFrom(acc \o SubSeq(c, k + 1, Len(c)), chunks, n + 1, overlap) :
                       k \in {j \in 0..overlap : IsSuffixPrefix(acc, c, j)} }

Merges(chunks, overlap) ==
    IF chunks = <<>> THEN {<<>>} ELSE MergeFrom(chunks[1], chunks, 2, overlap)

\* C3: with chunk_size > overlap >= 0, every iteration of the loop of chunk_text
\* leaves start strictly greater than it found it.
C3_ForwardProgress ==
    [][\A t \in Threads :
          (/\ ValidConfig
           /\ pc[t] = "chunk_loop"
           /\ loc'[t].iteration_count = loc[t].iteration_count + 1)
          => loc'[t].start > loc[t].start]_vars

\* C4: with chunk_size > overlap >= 0, chunk_text on a text of length L never
\* runs more than ceil(L / (chunk_size - overlap)) + c iterations.
C4_IterationBound ==
    \A t \in Threads :
        (ValidConfig /\ pc[t] \in {"chunk_loop", "chunk_done"})
        => loc[t].iteration_count
             <= CeilDiv(Len(loc[t].text), chunk_size - chunk_overlap) + SmallConstant

\* C5: chunk_text never returns normally while start is still before the end
\* of the text (the iteration cap ended the loop): it raises instead.
C5_NoSilentTruncation ==
    \A t \in Threads :
        (ValidConfig /\ pc[t] = "chunk_done")
        => loc[t].start >= Len(loc[t].text)

\* C6: with arguments violating chunk_size > overlap >= 0, chunk_text never
\* returns normally: it fails with a ConfigurationError and emits no chunks.
C6_InvalidConfigRejected ==
    \A t \in Threads :
        ~ValidConfig => pc[t] \notin {"chunk_loop", "chunk_done"}

\* C7: with chunk_size > overlap >= 0 and a non-empty text, the chunks returned,
\* concatenated in order without the overlap consecutive chunks share, give
\* back the text.  The chunks are trimmed, so the comparison here leaves
\* whitespace out; the exact comparison the claim asks for is stronger.
C7_Reconstruction ==
    \A t \in Threads :
        (ValidConfig /\ pc[t] = "chunk_done" /\ loc[t].text # <<>>)
        => NoWhitespace(loc[t].text)
             \in {NoWhitespace(m) : m \in Merges(loc[t].chunks, chunk_overlap)}

\* C8: with chunk_size > overlap >= 0, every chunk but the last is at most
\* chunk_size + 2 characters long (2 = the longest delimiter).
C8_ChunkBound ==
    \A t \in Threads :
        ValidConfig =>
            \A k \in 1..(Len(loc[t].chunks) - 1) :
                Len(loc[t].chunks[k]) <= chunk_size + LongestDelimiter

\* chunk_text has returned several chunks, the first of the full chunk_size
C8_Witness ==
    \E t \in Threads :
        /\ ValidConfig
        /\ pc[t] = "chunk_done"
        /\ Len(loc[t].chunks) >= 2
        /\ Len(loc[t].chunks[1]) = chunk_size

IsBlank(s) == Strip(s) = <<>>

\* C9: no chunk emitted by chunk_text is empty or whitespace-only, an empty
\* text gives no chunk, and so no record of documents has a blank text.
C9_NoBlankChunk ==
    /\ \A t \in Threads :
          /\ \A k \in 1..Len(loc[t].chunks) : ~IsBlank(loc[t].chunks[k])
          /\ (pc[t] = "chunk_done" /\ loc[t].text = <<>>) => loc[t].chunks = <<>>
    /\ \A k \in 1..Len(documents) : ~IsBlank(documents[k].text)

\* add_document stores the chunks of a text of which some slices were blank
\* and were dropped
C9_Witness ==
    \E t \in Threads :
        /\ pc[t] = "store"
        /\ documents # <<>>
        /\ Len(loc[t].chunks) < loc[t].iteration_count
        /\ \E k \in 1..Len(loc[t].text) : loc[t].text[k] \in Whitespace

---------------------------------------------------------------------------
(* Properties of the RAGSystem *)

\* C1: after any sequence of completed add_document and clear calls made one
\* at a time, failed and empty ones included, the index holds as many vectors
\* as documents holds records.
C1_IndexMatchesStore == Quiescent => NTotal(index) = Len(documents)

\* records are stored, and the last call of some thread was an add_document
\* that raised or found no chunk
C1_Witness ==
    /\ Quiescent
    /\ Len(documents) >= 2
    /\ \E t \in Threads : loc[t].last = "add_raised"

\* C2: under every interleaving of add_document, clear and retrieve, a retrieve
\* about to search never finds the index and documents of different sizes.
C2_RetrieveExcluded ==
    \A t \in Threads : pc[t] = "r_search" => NTotal(index) = Len(documents)

\* the chunk_id values of the records of source src, in store order
ChunkIdsOf(src) ==
    LET recs == SelectSeq(documents, LAMBDA r : r.source = src)
    IN  [k \in 1..Len(recs) |-> recs[k].chunk_id]

\* C10: after any sequence of add_document and clear calls, the chunk_id values
\* of each source's records are 0, 1, 2, ... in store order.
C10_ChunkIdsContiguous ==
    Quiescent =>
        \A src \in Sources :
            \A k \in 1..Len(ChunkIdsOf(src)) : ChunkIdsOf(src)[k] = k - 1

Min(a, b) == IF a < b THEN a ELSE b

\* the record retrieve reports for the store record at position p (1-based)
\* and the query embedding qe
Scored(p, qe) ==
    [text |-> documents[p].text,
     source |-> documents[p].source,
     chunk_id |-> documents[p].chunk_id,
     score |-> SqDist(index.vecs[p], qe)]

\* res lists k distinct store records, each with its distance to qe, by
\* ascending distance, and no record left out is nearer than one listed
IsNearest(res, qe, k) ==
    /\ Len(res) = k
    /\ \A j \in 1..(Len(res) - 1) : res[j].score <= res[j + 1].score
    /\ \E ps \in [1..Len(res) -> 1..Len(documents)] :
          /\ \A i, j \in 1..Len(res) : ps[i] = ps[j] => i = j
          /\ \A j \in 1..Len(res) : res[j] = Scored(ps[j], qe)
          /\ \A p \in 1..Len(documents) :
                (\A j \in 1..Len(res) : ps[j] # p)
                => \A j \in 1..Len(res) : res[j].score <= SqDist(index.vecs[p], qe)

\* C11: on a non-empty store with top_k >= 1, a retrieve that returns gives
\* exactly min(top_k, len(documents)) results: the store records nearest to the
\* query embedding, by ascending distance, each with the text, source and
\* chunk_id of its record.
C11_RetrieveNearest ==
    [][\A t \in Threads :
          (/\ pc[t] = "r_join"
           /\ pc'[t] = "returned"
           /\ loc'[t].raised = "none"
           /\ loc[t].top_k >= 1
           /\ documents # <<>>)
          => IsNearest(loc'[t].results, Embed(loc[t].query),
                       Min(loc[t].top_k, Len(documents)))]_vars

\* retrieve has returned two of at least three records, the nearer first, and
\* the nearest is not the first record of the store
C11_Witness ==
    \E t \in Threads :
        /\ pc[t] = "returned"
        /\ loc[t].last = "retrieve"
        /\ loc[t].raised = "none"
        /\ Len(documents) >= 3
        /\ Len(loc[t].results) = 2
        /\ loc[t].results[1].score < loc[t].results[2].score
        /\ loc[t].results[1].text # documents[1].text

\* C13: a retrieve with top_k <= 0 on a non-empty store ends its search with an
\* empty result and no exception: the non-positive k is not handed to the
\* index search as a fault.
C13_NonPositiveTopK ==
    [][\A t \in Threads :
          (/\ pc[t] = "r_search"
           /\ loc[t].top_k <= 0
           /\ documents # <<>>
           /\ pc'[t] # "r_search")
          => (/\ pc'[t] = "returned"
              /\ loc'[t].raised = "none"
              /\ loc'[t].results = <<>>)]_vars

---------------------------------------------------------------------------
(* Properties of query and synthesize_answer, checked under SpecQuery *)

\* C12: a query answered while the store is empty returns the fixed
\* no-information answer and an empty sources list, and no error, from
\* RAGSystem.query and from the /query handler alike.
C12_EmptyStoreAnswer ==
    \A t \in Threads :
        (/\ pc[t] = "returned"
         /\ loc[t].frames = <<>>
         /\ loc[t].last \in {"query", "http_query"}
         /\ documents = <<>>)
        => (/\ loc[t].raised = "none"
            /\ Len(loc[t].results) = 1
            /\ loc[t].results[1].answer = NoInformation
            /\ loc[t].results[1].sources = <<>>)

\* the labels of synthesize_answer
SynthLabels == {"synthesize", "s_try", "s_backend"}

\* C14: synthesize_answer raises nothing: whatever the provider settings, the
\* context and the outcome of the backend call, it returns an answer, and when
\* the backend call failed the answer is the fallback built from the context.
C14_SynthesizeNeverRaises ==
    [][\A t \in Threads :
          (pc[t] \in SynthLabels /\ pc'[t] = "returned")
          => (/\ loc'[t].raised = "none"
              /\ Len(loc'[t].results) = 1
              /\ loc'[t].results[1].kind \in {"no_information", "generated", "fallback"}
              /\ (pc[t] = "s_backend" /\ loc[t].response # "text")
                 => loc'[t].results[1] = FallbackAnswer(loc[t].context))]_vars

\* with the openai provider (whose only way to the fallback is a failed backend
\* call) synthesize_answer has returned the fallback for a context of two chunks
C14_Witness ==
    \E t \in Threads :
        /\ BackIn(t, "query", "synthesize")
        /\ llm_provider = "openai"
        /\ loc[t].raised = "none"
        /\ loc[t].results[1].kind = "fallback"
        /\ Len(loc[t].results[1].items) = 2

\* C15: a synthesize_answer call always goes on to return: the backend call
\* is bounded by a timeout, so a thread inside synthesize_answer can always
\* take its next step, also when the backend never responds.
C15_BackendCallBounded ==
    \A t \in Threads :
        pc[t] \in SynthLabels
        => ENABLED (SynthEnter(t) \/ SynthDispatch(t) \/ SynthBackend(t))

---------------------------------------------------------------------------
(* Properties of save_index, load_index and add_document, checked under     *)
(* SpecSnapshot                                                            *)

\* load_index has returned in thread t
Loaded(t) == pc[t] = "returned" /\ loc[t].last = "load"

\* index and documents as clear leaves them
Cleared == <<NewIndex, <<>>>>

\* C16: save_index, then clear, then load_index of the same path gives back
\* get_document_count(), the set of list_documents() and the retrieve results
\* of every query as they were when the snapshot was saved.
C16_SaveClearLoad ==
    \A t \in Threads :
        (Loaded(t) /\ loc[t].raised = "none" /\ saved.valid /\ before = Cleared)
        => Observed(index, documents) = saved

\* a snapshot of several records from both sources has been loaded into a
\* cleared store
C16_Witness ==
    \E t \in Threads :
        /\ Loaded(t)
        /\ loc[t].raised = "none"
        /\ saved.valid
        /\ before = Cleared
        /\ Len(documents) >= 2
        /\ index.d = embedding_dim
        /\ NTotal(index) = Len(documents)
        /\ saved.sources = Sources

\* C17: load_index of a snapshot whose index has another dimension than
\* embedding_dim fails with SnapshotIncompatibleError and installs nothing, so
\* the live index has dimension embedding_dim in every state.
C17_DimensionKept ==
    /\ index.d = embedding_dim
    /\ \A t \in Threads :
          (/\ Loaded(t)
           /\ disk.faiss.state = "ok"
           /\ disk.faiss.content.d # embedding_dim)
          => loc[t].raised = "SnapshotIncompatibleError"

\* C18: when load_index is over, completed or raised, index and documents
\* either both hold the contents of the snapshot or both are what they were
\* before the call.
C18_LoadAtomic ==
    \A t \in Threads :
        Loaded(t)
        => \/ <<index, documents>> = before
           \/ /\ disk.faiss.state = "ok"
              /\ disk.json.state = "ok"
              /\ index = ReadIndex(disk.faiss.content)
              /\ documents = JsonLoad(disk.json.content)

\* C19: when add_document has raised, at whatever stage, index and documents
\* are what they were before the call.
C19_AddAllOrNothing ==
    \A t \in Threads :
        (pc[t] = "returned" /\ loc[t].last = "add_raised")
        => <<index, documents>> = before

\* index.add has refused the vectors of an add_document call on a non-empty
\* store whose index has another dimension
C19_Witness ==
    \E t \in Threads :
        /\ pc[t] = "returned"
        /\ loc[t].last = "add_raised"
        /\ loc[t].raised = "IndexAddError"
        /\ documents # <<>>
        /\ NTotal(index) > 0

---------------------------------------------------------------------------
(* Properties of POST /upload, checked under SpecUpload *)

\* C20: an upload request does not fail because one of its files does
\* (unsupported extension, save, parse or ingestion failure): it returns
\* normally with one entry per file of the batch, the failed files as error
\* entries.
C20_BatchIsolation ==
    [][\A t \in Threads :
          (pc[t] = "upload" /\ pc'[t] = "returned")
          => (/\ loc'[t].raised = "none"
              /\ Len(loc'[t].results[1].files) = Len(loc[t].files))]_vars

\* the sum of the chunk counts of the success entries of an upload
RECURSIVE ReportedChunks(_)
ReportedChunks(entries) ==
    IF entries = <<>> THEN 0
    ELSE (IF Head(entries).status = "success" THEN Head(entries).chunks ELSE 0)
         + ReportedChunks(Tail(entries))

\* C21: the chunk count an upload reports for a file with status success is
\* the number of records add_document appended for it.  Stated between the
\* files of a request: the counts reported so far add up to the growth of
\* documents since the request began, which holds after every file exactly
\* when every single count is right.
C21_ReportedChunkCount ==
    \A t \in Threads :
        pc[t] = "upload"
        => ReportedChunks(loc[t].uploaded_files) = Len(documents) - Len(before[2])

\* the positions right after the occurrences of sub that lie entirely inside
\* the positions lo..hi-1 of s
CutsAfter(s, sub, lo, hi) ==
    {k + Len(sub) : k \in {j \in 0..(Len(s) - Len(sub)) :
                              /\ lo <= j
                              /\ j + Len(sub) <= hi
                              /\ SubSeq(s, j + 1, j + Len(sub)) = sub}}

\* the cut point the rule names for the window [start, start + size)
RuleCut(txt, start, size) ==
    LET end0 == start + size
        present == {d \in 1..Len(Delimiters) :
                       CutsAfter(txt, Delimiters[d], start, end0) # {}}
        spaces == CutsAfter(txt, <<" ">>, start, end0)
    IN  IF present # {}
        THEN SetMax(CutsAfter(txt, Delimiters[SetMin(present)], start, end0))
        ELSE IF spaces # {} THEN SetMax(spaces) ELSE end0

\* an iteration of the loop of chunk_text is about to run and its tentative
\* end lies before the end of the text
CutIteration(t) ==
    /\ pc[t] = "chunk_loop"
    /\ LoopCond(loc[t].text, loc[t])
    /\ loc[t].start + chunk_size < Len(loc[t].text)

\* C22: in an iteration of chunk_text whose tentative end start + chunk_size
\* lies before the end of the text, the cut is right after the last occurrence
\* in [start, end) of the first delimiter that occurs there, else right after
\* the last space there, else at start + chunk_size; it is > start and
\* <= start + chunk_size.  Stated for chunk_size > overlap >= 0.
C22_CutPointRule ==
    \A t \in Threads :
        (ValidConfig /\ CutIteration(t))
        => LET cut == FindEnd(loc[t].text, loc[t].start, chunk_size)
           IN  /\ cut = RuleCut(loc[t].text, loc[t].start, chunk_size)
               /\ cut > loc[t].start
               /\ cut <= loc[t].start + chunk_size

\* the bounds of C22 alone, for every pair of arguments
C22_CutBounds ==
    \A t \in Threads :
        CutIteration(t)
        => LET cut == FindEnd(loc[t].text, loc[t].start, chunk_size)
           IN  cut > loc[t].start /\ cut <= loc[t].start + chunk_size

\* the rule of C22 in the iterations that begin at a position of the text
C22_RuleFromTextPosition ==
    \A t \in Threads :
        (ValidConfig /\ CutIteration(t) /\ loc[t].start >= 0)
        => FindEnd(loc[t].text, loc[t].start, chunk_size)
             = RuleCut(loc[t].text, loc[t].start, chunk_size)

\* where a thread is while it executes retrieve, query or POST /query
ReadLabels ==
    {"retrieve", "r_encode", "r_search", "r_join", "query",
     "synthesize", "s_try", "s_backend", "http_query"}

\* what such a call, or a method it called, has returned
ReadKinds == {"retrieve", "synthesize", "query", "http_query"}

\* thread t is inside a retrieve or query call, or has just left it
Reading(t) ==
    \/ pc[t] \in ReadLabels
    \/ pc[t] = "returned" /\ loc[t].last \in ReadKinds

\* C23: retrieve and query never change the knowledge base: during and after
\* such a call, completed or failed, index and documents are what they were
\* when it began, and no stored record ever has a score field.
C23_QueriesDoNotMutate ==
    /\ \A t \in Threads : Reading(t) => <<index, documents>> = before
    /\ \A k \in 1..Len(documents) :
          DOMAIN documents[k] = {"text", "source", "chunk_id"}

\* a query has returned an answer with scored sources
C23_Witness ==
    \E t \in Threads :
        /\ pc[t] = "returned"
        /\ loc[t].frames = <<>>
        /\ loc[t].last = "query"
        /\ loc[t].raised = "none"
        /\ loc[t].results[1].sources # <<>>
        /\ documents # <<>>

\* the upload of thread t has come to a file whose name ends in neither .pdf
\* nor .txt
AtUnsupportedFile(t) ==
    /\ pc[t] = "upload"
    /\ loc[t].i < Len(loc[t].files)
    /\ ~Supported(loc[t].files[loc[t].i + 1].filename)

\* C24: an upload that comes to a file whose name ends in neither .pdf nor
\* .txt is answered at once with HTTP status 400, and neither that file nor
\* any later file of the request is ingested.
C24_UnsupportedIs400 ==
    [][\A t \in Threads :
          AtUnsupportedFile(t)
          => /\ pc'[t] = "returned"
             /\ loc'[t].last = "upload"
             /\ loc'[t].raised = "HTTP400"
             /\ <<index, documents>>' = <<index, documents>>]_vars

\* the part of C24 about the later files: the request ends at the file and
\* ingests nothing more
C24_LaterFilesNotIngested ==
    [][\A t \in Threads :
          AtUnsupportedFile(t)
          => /\ pc'[t] = "returned"
             /\ loc'[t].last = "upload"
             /\ loc'[t].raised # "none"
             /\ <<index, documents>>' = <<index, documents>>]_vars

\* the step of thread t is an iteration of the loop of retrieve that appends a
\* result
JoinAppends(t) ==
    /\ pc[t] = "r_join"
    /\ Len(loc'[t].results) > Len(loc[t].results)

\* C25: in every state that add_document, clear, save_index and load_index
\* lead to, calls that fail part-way included, a result of retrieve is the
\* store record at the position of a hit of the index: a hit that reports an
\* absent neighbour (position -1) or a position >= len(documents) gives no
\* result.
C25_ResultsAreHits ==
    [][\A t \in Threads :
          JoinAppends(t)
          => LET hit == loc[t].hits[loc[t].i + 1]
                 res == loc'[t].results[Len(loc'[t].results)]
             IN  /\ hit.idx \in 0..(Len(documents) - 1)
                 /\ res.text = documents[hit.idx + 1].text
                 /\ res.source = documents[hit.idx + 1].source
                 /\ res.chunk_id = documents[hit.idx + 1].chunk_id]_vars

\* the part of C25 about positions at or beyond len(documents)
C25_BeyondEndSkipped ==
    [][\A t \in Threads :
          JoinAppends(t) => loc[t].hits[loc[t].i + 1].idx < Len(documents)]_vars

=============================================================================
